---- MODULE Spec2Model ----
(***************************************************************************)
(* Model of webdoc_downloader: DocumentDownloader.download_from_url with   *)
(* its HTTP wrapper (_make_request), link filter (_is_downloadable_link,   *)
(* _normalize_url), file writer (_save_file), the DownloadReport it fills  *)
(* and the `download` command of cli.py that turns the outcome into an     *)
(* exit code.                                                              *)
(*                                                                         *)
(* Text (hrefs, URLs, file names, extensions) is a sequence of one-        *)
(* character strings, so that parsing, lower-casing, suffix tests and      *)
(* relative-URL resolution are computed character by character.            *)
(***************************************************************************)
EXTENDS Integers, Sequences, FiniteSets, TLC

(***************************************************************************)
(* Bounds of the model.                                                    *)
(***************************************************************************)
\* longest page (number of <a href> elements) the model enumerates
MaxLinks == 3
\* largest max_retries the model enumerates (the smallest is -1)
MaxRetries == 2
\* most chunks a body arrives in (a transfer in more chunks is left out)
MaxChunks == 3

(***************************************************************************)
(* Text helpers.                                                           *)
(***************************************************************************)
None == "None"

UpperChars == <<"A","B","C","D","E","F","G","H","I","J","K","L","M",
                "N","O","P","Q","R","S","T","U","V","W","X","Y","Z">>
LowerChars == <<"a","b","c","d","e","f","g","h","i","j","k","l","m",
                "n","o","p","q","r","s","t","u","v","w","x","y","z">>
Digits == {"0","1","2","3","4","5","6","7","8","9"}

\* str.lower() on one character
LowerChar(c) ==
    IF \E i \in 1..26 : UpperChars[i] = c
    THEN LowerChars[CHOOSE i \in 1..26 : UpperChars[i] = c]
    ELSE c

\* str.lower()
Lower(s) == [i \in 1..Len(s) |-> LowerChar(s[i])]

IsAlpha(c) == \E i \in 1..26 : UpperChars[i] = c \/ LowerChars[i] = c

\* s[i:] and s[:i] with Python's 0-based index i (0 <= i)
From(s, i) == IF i >= Len(s) THEN << >> ELSE SubSeq(s, i + 1, Len(s))
Upto(s, i) == IF i <= 0 THEN << >> ELSE SubSeq(s, 1, IF i > Len(s) THEN Len(s) ELSE i)

\* str.startswith / str.endswith
StartsWith(s, p) == Len(p) <= Len(s) /\ SubSeq(s, 1, Len(p)) = p
EndsWith(s, p) == Len(p) <= Len(s) /\ SubSeq(s, Len(s) - Len(p) + 1, Len(s)) = p

\* str.find(c) for a character drawn from the set cs: 0-based index of the
\* first occurrence, -1 when there is none
Find(s, cs) ==
    IF \E i \in 1..Len(s) : s[i] \in cs
    THEN (CHOOSE i \in 1..Len(s) : s[i] \in cs /\ \A j \in 1..(i - 1) : s[j] \notin cs) - 1
    ELSE -1

\* str.split('/')
RECURSIVE SplitSlash(_)
SplitSlash(s) ==
    LET i == Find(s, {"/"})
    IN  IF i < 0 THEN << s >>
        ELSE << Upto(s, i) >> \o SplitSlash(From(s, i + 1))

\* '/'.join(parts)
RECURSIVE JoinSlash(_)
JoinSlash(parts) ==
    IF Len(parts) = 0 THEN << >>
    ELSE IF Len(parts) = 1 THEN parts[1]
    ELSE parts[1] \o << "/" >> \o JoinSlash(Tail(parts))

(***************************************************************************)
(* urllib.parse, as download_from_url uses it.  The hrefs of the model     *)
(* carry no ';', no whitespace and no control characters, so the params    *)
(* component is always empty and no stripping takes place.                 *)
(***************************************************************************)
SchemeChars == {"+", "-", "."} \cup Digits
                 \cup {UpperChars[i] : i \in 1..26} \cup {LowerChars[i] : i \in 1..26}

\* schemes of urllib.parse.uses_relative / uses_netloc that occur in the model
UsesRelative == { << >>, <<"h","t","t","p">>, <<"h","t","t","p","s">>, <<"f","t","p">> }
UsesNetloc == UsesRelative

\* urllib.parse.urlparse(url, scheme=default)
urlparse(url, default) ==
    LET i == Find(url, {":"})
        hasScheme == /\ i > 0
                     /\ IsAlpha(url[1])
                     /\ \A k \in 1..i : url[k] \in SchemeChars
        scheme == IF hasScheme THEN Lower(Upto(url, i)) ELSE default
        r1 == IF hasScheme THEN From(url, i + 1) ELSE url
        hasNetloc == StartsWith(r1, <<"/", "/">>)
        afterSl == From(r1, 2)
        d == Find(afterSl, {"/", "?", "#"})
        netloc == IF ~hasNetloc THEN << >>
                  ELSE IF d < 0 THEN afterSl ELSE Upto(afterSl, d)
        r2 == IF ~hasNetloc THEN r1
              ELSE IF d < 0 THEN << >> ELSE From(afterSl, d)
        f == Find(r2, {"#"})
        fragment == IF f < 0 THEN << >> ELSE From(r2, f + 1)
        r3 == IF f < 0 THEN r2 ELSE Upto(r2, f)
        q == Find(r3, {"?"})
        query == IF q < 0 THEN << >> ELSE From(r3, q + 1)
        path == IF q < 0 THEN r3 ELSE Upto(r3, q)
    IN  [scheme |-> scheme, netloc |-> netloc, path |-> path,
         query |-> query, fragment |-> fragment]

\* urllib.parse.urlunparse, as of Python 3.13 (the f-strings of downloader.py
\* lines 109 and 135 need 3.12 or later): '//' is put before the path when
\* there is a netloc, when the path itself starts with '//', or when the
\* scheme uses a netloc and the path is empty or starts with '/'
urlunparse(p) ==
    LET u1 == IF Len(p.netloc) > 0
              THEN <<"/", "/">> \o p.netloc
                   \o (IF Len(p.path) > 0 /\ p.path[1] # "/" THEN <<"/">> ELSE << >>)
                   \o p.path
              ELSE IF StartsWith(p.path, <<"/", "/">>)
              THEN <<"/", "/">> \o p.path
              ELSE IF Len(p.scheme) > 0 /\ p.scheme \in UsesNetloc
                      /\ (Len(p.path) = 0 \/ p.path[1] = "/")
              THEN <<"/", "/">> \o p.path
              ELSE p.path
        u2 == IF Len(p.scheme) > 0 THEN p.scheme \o <<":">> \o u1 ELSE u1
        u3 == IF Len(p.query) > 0 THEN u2 \o <<"?">> \o p.query ELSE u2
    IN  IF Len(p.fragment) > 0 THEN u3 \o <<"#">> \o p.fragment ELSE u3

\* the loop of urljoin that resolves '.' and '..' segments
RECURSIVE ResolveDots(_, _)
ResolveDots(segments, acc) ==
    IF Len(segments) = 0 THEN acc
    ELSE LET seg == Head(segments)
         IN  IF seg = <<".", ".">>
             THEN ResolveDots(Tail(segments),
                              IF Len(acc) > 0 THEN SubSeq(acc, 1, Len(acc) - 1) ELSE acc)
             ELSE IF seg = <<".">>
             THEN ResolveDots(Tail(segments), acc)
             ELSE ResolveDots(Tail(segments), Append(acc, seg))

\* segments[1:-1] = filter(None, segments[1:-1])
FilterMiddle(segments) ==
    IF Len(segments) <= 2 THEN segments
    ELSE << segments[1] >>
         \o SelectSeq(SubSeq(segments, 2, Len(segments) - 1), LAMBDA x : Len(x) > 0)
         \o << segments[Len(segments)] >>

\* urljoin: base_parts, the segments of the base path without its last one
BaseParts(bp) == IF bp[Len(bp)] # << >> THEN SubSeq(bp, 1, Len(bp) - 1) ELSE bp

\* urljoin: the segments to resolve, for a reference with a non-empty path
Segments(base_path, path) ==
    IF path[1] = "/" THEN SplitSlash(path)
    ELSE FilterMiddle(BaseParts(SplitSlash(base_path)) \o SplitSlash(path))

\* urljoin: resolved_path, with the trailing '' that a final dot segment leaves
ResolvedPath(segments) ==
    IF segments[Len(segments)] \in { <<".">>, <<".", ".">> }
    THEN Append(ResolveDots(segments, << >>), << >>)
    ELSE ResolveDots(segments, << >>)

\* urljoin: '/'.join(resolved_path) or '/'
JoinedOrRoot(joined) == IF Len(joined) = 0 THEN <<"/">> ELSE joined

\* urljoin once both URLs are parsed: b is the base, u the reference
JoinParsed(b, u, url) ==
    IF u.scheme # b.scheme \/ u.scheme \notin UsesRelative THEN url
    ELSE IF u.scheme \in UsesNetloc /\ Len(u.netloc) > 0 THEN urlunparse(u)
    ELSE IF Len(u.path) = 0
    THEN urlunparse([scheme |-> u.scheme,
                     netloc |-> IF u.scheme \in UsesNetloc THEN b.netloc ELSE u.netloc,
                     path |-> b.path,
                     query |-> IF Len(u.query) = 0 THEN b.query ELSE u.query,
                     fragment |-> u.fragment])
    ELSE urlunparse([scheme |-> u.scheme,
                     netloc |-> IF u.scheme \in UsesNetloc THEN b.netloc ELSE u.netloc,
                     path |-> JoinedOrRoot(JoinSlash(ResolvedPath(Segments(b.path, u.path)))),
                     query |-> u.query, fragment |-> u.fragment])

\* urljoin once the base is parsed: the reference inherits the base's scheme
JoinBase(b, url) == JoinParsed(b, urlparse(url, b.scheme), url)

\* urllib.parse.urljoin(base, url)
urljoin(base, url) ==
    IF Len(base) = 0 THEN url
    ELSE IF Len(url) = 0 THEN base
    ELSE JoinBase(urlparse(base, << >>), url)

\* pathlib: Path(p).name, the last component of the path ('' when there is none)
PathName(p) ==
    LET parts == SelectSeq(SplitSlash(p), LAMBDA x : Len(x) > 0 /\ x # <<".">>)
    IN  IF Len(parts) = 0 THEN << >> ELSE parts[Len(parts)]

(***************************************************************************)
(* Inputs: the page that is fetched and the server behind it.              *)
(***************************************************************************)
\* the URL handed to download_from_url: http://h/p/i
PageUrl == <<"h","t","t","p",":","/","/","h","/","p","/","i">>

\* the href values a page of the model may carry
Hrefs ==
    { <<"a",".","p","d","f">>,                          \* a.pdf
      <<"b",".","d","o","c","x">>,                      \* b.docx
      <<"/","d","/","a",".","p","d","f">>,              \* /d/a.pdf: another URL, same name
      <<"c",".","t","x","t">> }                         \* c.txt: extension not allowed

\* the pages: every sequence of at most MaxLinks hrefs, in document order
Pages == UNION { [1..n -> Hrefs] : n \in 0..MaxLinks }

\* models.py: DownloaderConfig.max_retries is any int; typer passes any int
RetryChoices == (0 - 1)..MaxRetries

\* cli.py: the default of --allowed-extensions, split on ',' and stripped
DefaultExtensions == << <<".","p","d","f">>, <<".","d","o","c">>, <<".","d","o","c","x">> >>

\* _save_file: response.iter_content(chunk_size=8192)
ChunkSize == 8192

\* How the server sends a body: piece 0 is a Content-Length transfer, a
\* positive piece is a chunked transfer (Transfer-Encoding: chunked) in
\* pieces of that many bytes.
Transfers == {0, 60, 4000}

\* An answer of status 1xx, 204 or 304 framed by Content-Length has no body
\* for the client: http.client reads none, response.content is empty and
\* iter_content yields no chunk.  Sent chunked, the same answer is read like
\* any other: download_from_url has no test of the status after
\* _make_request has returned.
NoBody(status, piece) ==
    piece = 0 /\ (status \in 100..199 \/ status \in {204, 304})

\* soup.find_all('a', href=True) on response.content: the hrefs of the page
\* when the client reads its body, none when it does not
find_all(hrefs, status, piece) == IF NoBody(status, piece) THEN << >> ELSE hrefs

\* The server is static: the body it serves for a URL has a fixed length,
\* chosen so that bodies of no chunk, one chunk and two chunks all occur.
Served(url) ==
    LET path == urlparse(url, << >>).path
    IN  IF path = <<"/","p","/","a",".","p","d","f">> THEN ChunkSize + 100
        ELSE IF path = <<"/","p","/","b",".","d","o","c","x">> THEN 100
        ELSE 0

\* the bytes the client reads of a body of n bytes
BodyRead(n, status, piece) == IF NoBody(status, piece) THEN 0 ELSE n

\* the bytes iter_content delivers of the answer to a GET of url
BodyLen(url, status, piece) == BodyRead(Served(url), status, piece)

\* iter_content(chunk_size=8192) on a body of n bytes.  A Content-Length
\* body is read ChunkSize bytes at a time; a chunked body is yielded piece
\* by piece as the server sent it, a piece longer than ChunkSize being cut
\* in its turn.
RECURSIVE iter_content(_, _)
iter_content(n, piece) ==
    IF n <= 0 THEN << >>
    ELSE IF piece <= 0
    THEN (IF n <= ChunkSize THEN << n >>
          ELSE << ChunkSize >> \o iter_content(n - ChunkSize, 0))
    ELSE IF n <= piece THEN iter_content(n, 0)
    ELSE iter_content(piece, 0) \o iter_content(n - piece, piece)

\* Len(iter_content(n, piece)), without building the chunks
ChunkCount(n, piece) ==
    LET per(m) == (m + ChunkSize - 1) \div ChunkSize
    IN  IF n <= 0 THEN 0
        ELSE IF piece <= 0 THEN per(n)
        ELSE (n \div piece) * per(piece) + per(n % piece)

\* the transfers of a body of n bytes that arrive in at most MaxChunks chunks
TransfersOf(n) == { piece \in Transfers : ChunkCount(n, piece) <= MaxChunks }

\* what one session.get can do: a response with a status code, or an
\* exception of requests (both subclasses of RequestException)
Statuses == {200, 304, 404}
GetOutcomes ==
    [kind : {"response"}, status : Statuses]
      \cup [kind : {"ConnectionError", "Timeout"}, status : {0}]

\* requests finds a connection adapter for http:// and https:// URLs only;
\* for any other URL session.get raises InvalidSchema (a RequestException)
\* without sending anything
GetOutcomesFor(url) ==
    IF urlparse(url, << >>).scheme \in { <<"h","t","t","p">>, <<"h","t","t","p","s">> }
    THEN GetOutcomes
    ELSE { [kind |-> "InvalidSchema", status |-> 0] }

\* the content-length header of a file response
ContentLengthHeaders == {"absent", "valid", "invalid"}

(***************************************************************************)
(* Values: exceptions, responses, files, the report.                       *)
(***************************************************************************)
\* models.py: end_time: Optional[datetime] = None
Unset == 0 - 1

\* str(e): the format string of the message and the values put into it
Message(text, url, n, e) == [text |-> text, url |-> url, n |-> n, e |-> e]
NoMsg == Message("", << >>, 0, "")

Exception(type, msg) == [type |-> type, msg |-> msg]
NoExc == Exception(None, NoMsg)

\* exceptions.py: the classes derived from DownloadError
DownloadErrorTypes ==
    {"DownloadError", "InvalidURLError", "NetworkError", "FileSystemError", "ValidationError"}

\* a requests.Response: its status, the URL it answers and the ordinal,
\* within the _make_request call, of the GET that produced it
Response(status, url, n) == [status |-> status, url |-> url, n |-> n]
NoResponse == Response(0, << >>, 0)

\* a file of the output directory: absent, present before the run ("pre")
\* or opened by this run ("run") with the bytes written to it so far
Absent == [present |-> FALSE, bytes |-> 0, by |-> None]
PreExisting == [present |-> TRUE, bytes |-> 1, by |-> "pre"]
Written(n) == [present |-> TRUE, bytes |-> n, by |-> "run"]

\* models.py: DownloadReport(start_time=...)
DownloadReport(start_time) ==
    [ success_count |-> 0, failed_count |-> 0, skipped_count |-> 0,
      successful_files |-> << >>, failed_files |-> [u \in {} |-> NoMsg],
      skipped_files |-> << >>, total_size |-> 0,
      start_time |-> start_time, end_time |-> Unset ]

(***************************************************************************)
(* The HTTP wrapper: DocumentDownloader._make_request.                     *)
(***************************************************************************)
\* requests: Response.raise_for_status() raises HTTPError for 4xx and 5xx
raise_for_status(status) == 400 <= status /\ status < 600

\* `for attempt in range(self.config.max_retries)`: is there an iteration
\* for this value of attempt?
InRange(attempt, max_retries) == 0 <= attempt /\ attempt < max_retries

\* `if attempt == self.config.max_retries - 1`
IsLastAttempt(attempt, max_retries) == attempt = max_retries - 1

\* the NetworkError of _make_request
NetworkError(url, max_retries, cause) ==
    Exception("NetworkError",
              Message("Failed to fetch {url} after {n} attempts: {e}", url, max_retries, cause))

\* variant: a response that passes raise_for_status is not returned at once;
\* the loop goes on while attempts remain
_make_request_no_return(url, attempt, max_retries, sent, outcome) ==
    LET raised == outcome.kind # "response" \/ raise_for_status(outcome.status)
    IN  IF ~raised /\ ~InRange(attempt + 1, max_retries)
        THEN [ctl |-> "return", response |-> Response(outcome.status, url, sent + 1),
              exc |-> NoExc]
        ELSE IF raised /\ IsLastAttempt(attempt, max_retries)
        THEN [ctl |-> "raise", response |-> NoResponse,
              exc |-> NetworkError(url, max_retries, "RequestException")]
        ELSE IF InRange(attempt + 1, max_retries)
        THEN [ctl |-> "continue", response |-> NoResponse, exc |-> NoExc]
        ELSE [ctl |-> "return", response |-> NoResponse, exc |-> NoExc]

\* One iteration of the loop of _make_request: the GET that is the
\* (sent + 1)-th of the call has the given outcome.  ctl tells how the
\* iteration ends: the call returns, raises, or goes on to the next attempt.
\* When range() is exhausted without a raise the function falls off its end
\* and returns None.
_make_request(url, attempt, max_retries, sent, outcome) ==
    LET raised == outcome.kind # "response" \/ raise_for_status(outcome.status)
        \* `except requests.RequestException as e`: HTTPError, ConnectionError
        \* and Timeout are handled alike; str(e) is the text of the library
        cause == "RequestException"
    IN  IF ~raised
        THEN [ctl |-> "return", response |-> Response(outcome.status, url, sent + 1),
              exc |-> NoExc]
        ELSE IF IsLastAttempt(attempt, max_retries)
        THEN [ctl |-> "raise", response |-> NoResponse,
              exc |-> NetworkError(url, max_retries, cause)]
        ELSE IF InRange(attempt + 1, max_retries)
        THEN [ctl |-> "continue", response |-> NoResponse, exc |-> NoExc]
        ELSE [ctl |-> "return", response |-> NoResponse, exc |-> NoExc]

(***************************************************************************)
(* The link filter and the candidate list.                                 *)
(***************************************************************************)
\* variant: the path is compared with its letter case as written
_is_downloadable_link_case(href, allowed_extensions) ==
    IF Len(href) = 0 \/ StartsWith(href, <<"#">>)
       \/ StartsWith(href, <<"j","a","v","a","s","c","r","i","p","t",":">>)
    THEN FALSE
    ELSE LET path == urlparse(href, << >>).path
         IN  \E k \in 1..Len(allowed_extensions) :
                EndsWith(path, Lower(allowed_extensions[k]))

\* variant: hrefs of the javascript: scheme are not rejected
_is_downloadable_link_script(href, allowed_extensions) ==
    IF Len(href) = 0 \/ StartsWith(href, <<"#">>)
    THEN FALSE
    ELSE LET path == Lower(urlparse(href, << >>).path)
         IN  \E k \in 1..Len(allowed_extensions) :
                EndsWith(path, Lower(allowed_extensions[k]))

\* DocumentDownloader._is_downloadable_link
_is_downloadable_link(href, allowed_extensions) ==
    IF Len(href) = 0 \/ StartsWith(href, <<"#">>)
       \/ StartsWith(href, <<"j","a","v","a","s","c","r","i","p","t",":">>)
    THEN FALSE
    ELSE LET path == Lower(urlparse(href, << >>).path)
         IN  \E k \in 1..Len(allowed_extensions) :
                EndsWith(path, Lower(allowed_extensions[k]))

\* DocumentDownloader._normalize_url
_normalize_url(base_url, file_url) == urljoin(base_url, file_url)

\* variant: a URL already in the list is not appended again
AppendLinkDedup(file_links, absolute_url) ==
    IF \E i \in 1..Len(file_links) : file_links[i] = absolute_url
    THEN file_links
    ELSE Append(file_links, absolute_url)

\* `file_links.append(absolute_url)`
AppendLink(file_links, absolute_url) == Append(file_links, absolute_url)

\* the loop over soup.find_all('a', href=True) that builds file_links
RECURSIVE ExtractLinks(_, _, _, _)
ExtractLinks(url, links, allowed_extensions, file_links) ==
    IF Len(links) = 0 THEN file_links
    ELSE LET href == Head(links)
         IN  ExtractLinks(url, Tail(links), allowed_extensions,
                 IF _is_downloadable_link(href, allowed_extensions)
                 THEN AppendLink(file_links, _normalize_url(url, href))
                 ELSE file_links)

\* utils.sanitize_filename: returns its argument
sanitize_filename(filename) == filename

\* `sanitize_filename(Path(urlparse(file_url).path).name)`
FileNameOf(file_url) == sanitize_filename(PathName(urlparse(file_url, << >>).path))

\* every file name a page of the model can lead to: the domain of the
\* output directory
FileNames ==
    { FileNameOf(_normalize_url(PageUrl, h)) :
        h \in { g \in Hrefs : _is_downloadable_link(g, DefaultExtensions) } }

\* variant: the check for an existing file is left out
existsNever(d, filename) == FALSE

\* variant: an empty file does not count as existing
existsNonEmpty(d, filename) == d[filename].present /\ d[filename].bytes > 0

\* `(self.output_dir / filename).exists()`
exists(d, filename) == d[filename].present

\* `for file_url in file_links`: where control goes when the iteration for
\* link i ends: to the next link, or out of the loop to the finally clause
AfterLink(links, i) == IF i < Len(links) THEN "loop" ELSE "finally"

(***************************************************************************)
(* The file writer: DocumentDownloader._save_file.                         *)
(***************************************************************************)
\* sum of the first k chunk lengths, counting only the non-empty chunks
\* (`if chunk:`)
RECURSIVE WriteChunks(_, _)
WriteChunks(chunks, k) ==
    IF k <= 0 \/ Len(chunks) = 0 THEN 0
    ELSE (IF Head(chunks) > 0 THEN Head(chunks) ELSE 0) + WriteChunks(Tail(chunks), k - 1)

\* The file is opened buffered: f.write hands the chunk to the buffer, and
\* the bytes reach the disk when the buffer is flushed, by a later write or
\* by the close that ends the `with`.  A save that fails after open() can
\* therefore leave a number of bytes that is no sum of chunks: the device
\* takes the first `cut` bytes and refuses the next (file size limit, disk
\* full), or the server closes the connection in the middle of a chunk.
Cuts == {50, 5000}
NoCut == 0 - 1

\* What can go wrong in a save:
\*   nothing;
\*   open() raising;
\*   the k-th read of iter_content raising, with k - 1 chunks written (the
\*   exception closes the file, which flushes them).  The read that finds the
\*   end of the body can raise as well when it has to go to the connection:
\*   always in a chunked transfer, and for an empty body;
\*   the file stopping at `cut` bytes, short of the bytes written: the
\*   exception comes out of a write whose flush goes past the cut (k), or out
\*   of the close (k = Len(chunks) + 1).
SaveFaults(chunks, piece) ==
    [at : {"none", "open"}, k : {0}, cut : {NoCut}]
      \cup [at : {"chunk"},
            k : 1..(IF piece > 0 \/ Len(chunks) = 0 THEN Len(chunks) + 1 ELSE Len(chunks)),
            cut : {NoCut}]
      \cup { f \in [at : {"chunk"}, k : 1..(Len(chunks) + 1), cut : Cuts] :
               /\ f.cut < WriteChunks(chunks, Len(chunks))
               /\ f.k = Len(chunks) + 1 \/ WriteChunks(chunks, f.k) > f.cut }

\* the bytes a failed save leaves in the file
LeftOnDisk(chunks, fault) ==
    IF fault.cut = NoCut THEN WriteChunks(chunks, fault.k - 1)
    ELSE IF fault.cut < WriteChunks(chunks, Len(chunks)) THEN fault.cut
    ELSE WriteChunks(chunks, Len(chunks))

\* variant: the destination is opened only when the first chunk arrives, so
\* an empty body leaves no file
_save_file_lazy(chunks, fault) ==
    IF fault.at = "open"
    THEN [raised |-> TRUE, file |-> Absent, bytes_written |-> 0]
    ELSE IF fault.at = "chunk"
    THEN [raised |-> TRUE,
          file |-> IF LeftOnDisk(chunks, fault) = 0 THEN Absent
                   ELSE Written(LeftOnDisk(chunks, fault)),
          bytes_written |-> 0]
    ELSE [raised |-> FALSE,
          file |-> IF WriteChunks(chunks, Len(chunks)) = 0 THEN Absent
                   ELSE Written(WriteChunks(chunks, Len(chunks))),
          bytes_written |-> WriteChunks(chunks, Len(chunks))]

\* _save_file under a fault: whether it raises, the file it leaves and the
\* bytes_written it returns
_save_file(chunks, fault) ==
    IF fault.at = "open"
    THEN [raised |-> TRUE, file |-> Absent, bytes_written |-> 0]
    ELSE IF fault.at = "chunk"
    THEN [raised |-> TRUE, file |-> Written(LeftOnDisk(chunks, fault)),
          bytes_written |-> 0]
    ELSE [raised |-> FALSE, file |-> Written(WriteChunks(chunks, Len(chunks))),
          bytes_written |-> WriteChunks(chunks, Len(chunks))]

\* the save of n bytes sent in the given pieces, under every fault: where
\* the save failed and what _save_file did
SavesOf(n, piece) ==
    { [at |-> fault.at, s |-> _save_file(iter_content(n, piece), fault)] :
        fault \in SaveFaults(iter_content(n, piece), piece) }

\* what saving an answer with a body of n bytes can come to, for every
\* transfer of the body
SavesOfBody(n, status) ==
    UNION { SavesOf(BodyRead(n, status, piece), piece) :
            piece \in { p \in Transfers : p \in TransfersOf(BodyRead(n, status, p)) } }

\* what saving the answer to a GET of url can come to
SaveOutcomes(url, status) == SavesOfBody(Served(url), status)

(***************************************************************************)
(* Updates of the report, and the handlers.                                *)
(***************************************************************************)
\* variant: the file name is recorded but skipped_count is not raised
RecordSkippedNoCount(r, filename) == [r EXCEPT !.skipped_files = Append(@, filename)]

\* lines 90-91
RecordSkipped(r, filename) ==
    [r EXCEPT !.skipped_files = Append(@, filename), !.skipped_count = @ + 1]

\* variant: `report.total_size = bytes_written` instead of `+=`
RecordSuccessAssign(r, filename, bytes_written) ==
    [r EXCEPT !.successful_files = Append(@, filename), !.success_count = @ + 1,
              !.total_size = bytes_written]

\* lines 104-106
RecordSuccess(r, filename, bytes_written) ==
    [r EXCEPT !.successful_files = Append(@, filename), !.success_count = @ + 1,
              !.total_size = @ + bytes_written]

\* variant: failed_count is raised only for a URL not yet in failed_files
RecordFailedNewKey(r, file_url, msg) ==
    [r EXCEPT !.failed_files = [u \in DOMAIN @ \cup {file_url} |->
                                   IF u = file_url THEN msg ELSE @[u]],
              !.failed_count = IF file_url \in DOMAIN r.failed_files THEN @ ELSE @ + 1]

\* lines 111-112: failed_files is a dict keyed by the URL
RecordFailed(r, file_url, msg) ==
    [r EXCEPT !.failed_files = [u \in DOMAIN @ \cup {file_url} |->
                                   IF u = file_url THEN msg ELSE @[u]],
              !.failed_count = @ + 1]

\* variant: the handler inside the loop catches DownloadError only
PerFileCatchesDownloadError(e) == e.type \in DownloadErrorTypes

\* line 108: `except Exception` inside the loop catches every exception
PerFileCatches(e) == TRUE

\* variant: the outer handler logs the error and does not raise
OuterHandlerSwallow(url, e) == NoExc

\* lines 114-116: the outer handler wraps whatever reaches it
OuterHandler(url, e) ==
    Exception("DownloadError",
              Message("Failed to download from {url}: {e}", url, e.msg.n, e.type))

\* variant: end_time is stamped after the try block, not in a finally clause
StampEndOnSuccess(r, e, now) == IF e = NoExc THEN [r EXCEPT !.end_time = now] ELSE r

\* lines 117-118: the finally clause
StampEnd(r, e, now) == [r EXCEPT !.end_time = now]

\* variant: a report with failures makes the command exit with 1
ExitCodeStrict(r, e) == IF e = NoExc /\ r.failed_count = 0 THEN 0 ELSE 1

\* cli.py: the exit code of the command for what download_from_url did
ExitCode(r, e) == IF e = NoExc THEN 0 ELSE 1

(***************************************************************************)
(* State.                                                                  *)
(***************************************************************************)
VARIABLES
    page,           \* the href of every <a href> of the page the server holds, in
                    \* document order
    links,          \* download_from_url: links (their hrefs)
    config,         \* DownloaderConfig: max_retries, allowed_extensions
    dir,            \* the output directory: file name -> file
    pc,             \* where the command is
    report,         \* the DownloadReport of the invocation
    response,       \* download_from_url: response (of the page)
    file_response,  \* download_from_url: file_response (of the current link)
    file_links,     \* download_from_url: file_links
    idx,            \* `for file_url in file_links`: 1-based position of the link at
                    \* hand; Len(file_links) + 1 once the loop is over
    attempt,        \* _make_request: attempt
    sent,           \* GET requests issued so far by the current _make_request call
    got_2xx,        \* the latest GET of the current _make_request call was
                    \* answered with a 2xx status
    calls,          \* the URLs _make_request has been called with, in order
    exc,            \* the exception in flight (or being handled)
    clock,          \* datetime.now()
    exit_code,      \* exit code of the command
    stdout          \* what the command has printed

vars == << page, links, config, dir, pc, report, response, file_response, file_links, idx,
           attempt, sent, got_2xx, calls, exc, clock, exit_code, stdout >>

\* a GET answered with a status of 200..299
Is2xx(outcome) == outcome.kind = "response" /\ 200 <= outcome.status /\ outcome.status <= 299

\* the state when the command is invoked: nothing has run yet
Init ==
    /\ page \in Pages
    /\ config \in [max_retries : RetryChoices, allowed_extensions : {DefaultExtensions}]
    /\ dir \in [FileNames -> {Absent, PreExisting}]
    /\ links = << >>
    /\ pc = "cli"
    /\ report = DownloadReport(Unset)
    /\ response = NoResponse
    /\ file_response = NoResponse
    /\ file_links = << >>
    /\ idx = 0
    /\ attempt = 0
    /\ sent = 0
    /\ got_2xx = FALSE
    /\ calls = << >>
    /\ exc = NoExc
    /\ clock = 0
    /\ exit_code = Unset
    /\ stdout = << >>

\* the URL of the _make_request call in progress
CurrentUrl == IF idx = 0 THEN PageUrl ELSE file_links[idx]

\* cli.py `download` up to the call, and download_from_url lines 48-57: the
\* report is created, the output directory is made, _make_request(url) is
\* entered.  mkdir can only fail when the directory is not there yet.
Start ==
    /\ pc = "cli"
    /\ report' = DownloadReport(clock)
    /\ clock' = clock + 1
    /\ \E mkdir_ok \in BOOLEAN :
         /\ (\E f \in DOMAIN dir : dir[f].present) => mkdir_ok
         /\ IF ~mkdir_ok
            THEN /\ exc' = Exception("OSError", Message("mkdir failed", << >>, 0, ""))
                 /\ pc' = "outer_exc"
                 /\ calls' = calls
            ELSE /\ exc' = exc
                 /\ calls' = Append(calls, PageUrl)
                 /\ pc' = IF InRange(0, config.max_retries) THEN "page_req" ELSE "page_ret"
    /\ attempt' = 0
    /\ sent' = 0
    /\ UNCHANGED << page, links, config, dir, response, file_response, file_links, idx, got_2xx,
                    exit_code, stdout >>

\* _make_request(url), one iteration: lines 124-138, for the page
PageGet ==
    /\ pc = "page_req"
    /\ \E o \in GetOutcomesFor(PageUrl) :
         LET r == _make_request(PageUrl, attempt, config.max_retries, sent, o)
         IN  /\ got_2xx' = Is2xx(o)
             /\ sent' = sent + 1
             /\ response' = r.response
             /\ exc' = r.exc
             /\ attempt' = IF r.ctl = "continue" THEN attempt + 1 ELSE 0
             /\ pc' = CASE r.ctl = "return" -> "page_ret"
                        [] r.ctl = "raise" -> "outer_exc"
                        [] OTHER -> "page_req"
    /\ UNCHANGED << page, links, config, dir, report, file_response, file_links, idx, calls,
                    clock, exit_code, stdout >>

\* lines 58-78: the page is parsed and the candidate list built.  A
\* _make_request that returned None makes `response.content` raise.
\* response is not read after line 58.
PageParse ==
    /\ pc = "page_ret"
    /\ IF response = NoResponse
       THEN /\ exc' = Exception("AttributeError",
                         Message("'NoneType' object has no attribute 'content'", << >>, 0, ""))
            /\ pc' = "outer_exc"
            /\ UNCHANGED << links, file_links, idx >>
       ELSE /\ links' \in { find_all(page, response.status, piece) : piece \in Transfers }
            /\ file_links' = ExtractLinks(PageUrl, links', config.allowed_extensions, << >>)
            /\ idx' = 1
            /\ pc' = AfterLink(file_links', 0)
            /\ exc' = exc
    /\ response' = NoResponse
    /\ sent' = 0
    /\ got_2xx' = FALSE
    /\ UNCHANGED << page, config, dir, report, file_response, attempt, calls,
                    clock, exit_code, stdout >>

\* lines 81-95: the next link, if any: skipped when a file of its name
\* exists, otherwise _make_request(file_url, stream=True) is entered
LoopStep ==
    /\ pc = "loop"
    /\ LET file_url == file_links[idx]
           filename == FileNameOf(file_url)
       IN  IF exists(dir, filename)
           THEN /\ report' = RecordSkipped(report, filename)
                /\ idx' = idx + 1
                /\ pc' = AfterLink(file_links, idx)
                /\ UNCHANGED << calls, attempt >>
           ELSE /\ calls' = Append(calls, file_url)
                /\ attempt' = 0
                /\ pc' = IF InRange(0, config.max_retries) THEN "file_req" ELSE "file_ret"
                /\ UNCHANGED << report, idx >>
    /\ UNCHANGED << page, links, config, dir, response, file_response, file_links, sent, got_2xx,
                    exc, clock, exit_code, stdout >>

\* _make_request(file_url, stream=True), one iteration: lines 124-138
FileGet ==
    /\ pc = "file_req"
    /\ \E o \in GetOutcomesFor(file_links[idx]) :
         LET r == _make_request(file_links[idx], attempt, config.max_retries, sent, o)
         IN  /\ got_2xx' = Is2xx(o)
             /\ sent' = sent + 1
             /\ file_response' = r.response
             /\ exc' = r.exc
             /\ attempt' = IF r.ctl = "continue" THEN attempt + 1 ELSE 0
             /\ pc' = CASE r.ctl = "return" -> "file_ret"
                        [] r.ctl = "raise" -> "file_exc"
                        [] OTHER -> "file_req"
    /\ UNCHANGED << page, links, config, dir, report, response, file_links, idx, calls,
                    clock, exit_code, stdout >>

\* lines 96-106: the content-length header is read with int(), the body is
\* saved, the report is updated.  file_response is a local of the iteration
\* and is not read after it.
FileSave ==
    /\ pc = "file_ret"
    /\ LET file_url == file_links[idx]
           filename == FileNameOf(file_url)
       IN  IF file_response = NoResponse
           THEN /\ exc' = Exception("AttributeError",
                             Message("'NoneType' object has no attribute 'headers'",
                                     << >>, 0, ""))
                /\ pc' = "file_exc"
                /\ UNCHANGED << dir, report, idx >>
           ELSE \/ /\ \E hdr \in ContentLengthHeaders : hdr = "invalid"
                   /\ exc' = Exception("ValueError",
                                Message("invalid literal for int() with base 10",
                                        << >>, 0, ""))
                   /\ pc' = "file_exc"
                   /\ UNCHANGED << dir, report, idx >>
                \/ /\ \E hdr \in ContentLengthHeaders : hdr # "invalid"
                   /\ \E out \in SaveOutcomes(file_url, file_response.status) :
                        /\ dir' = IF out.s.file.present
                                  THEN [dir EXCEPT ![filename] = out.s.file] ELSE dir
                        /\ IF out.s.raised
                           THEN /\ exc' = Exception("OSError",
                                             Message("[Errno] " \o out.at, << >>, 0, ""))
                                /\ pc' = "file_exc"
                                /\ UNCHANGED << report, idx >>
                           ELSE /\ report' = RecordSuccess(report, filename,
                                                           out.s.bytes_written)
                                /\ idx' = idx + 1
                                /\ pc' = AfterLink(file_links, idx)
                                /\ exc' = exc
    /\ file_response' = NoResponse
    /\ sent' = 0
    /\ got_2xx' = FALSE
    /\ UNCHANGED << page, links, config, response, file_links, attempt, calls, clock,
                    exit_code, stdout >>

\* lines 108-112: the handler inside the loop
FileExcept ==
    /\ pc = "file_exc"
    /\ IF PerFileCatches(exc)
       THEN /\ report' = RecordFailed(report, file_links[idx], exc.msg)
            /\ idx' = idx + 1
            /\ exc' = NoExc
            /\ pc' = AfterLink(file_links, idx)
       ELSE /\ pc' = "outer_exc"
            /\ UNCHANGED << report, idx, exc >>
    /\ file_response' = NoResponse
    /\ sent' = 0
    /\ got_2xx' = FALSE
    /\ UNCHANGED << page, links, config, dir, response, file_links, attempt, calls, clock,
                    exit_code, stdout >>

\* lines 114-116: the outer handler raises DownloadError
OuterExcept ==
    /\ pc = "outer_exc"
    /\ exc' = OuterHandler(PageUrl, exc)
    /\ pc' = "finally"
    /\ sent' = 0
    /\ got_2xx' = FALSE
    /\ UNCHANGED << page, links, config, dir, report, response, file_response, file_links, idx,
                    attempt, calls, clock, exit_code, stdout >>

\* lines 117-120: the finally clause stamps end_time; then the report is
\* returned or the DownloadError goes on to the caller
Finally ==
    /\ pc = "finally"
    /\ report' = StampEnd(report, exc, clock)
    /\ clock' = clock + 1
    /\ pc' = IF exc = NoExc THEN "returned" ELSE "propagated"
    /\ UNCHANGED << page, links, config, dir, response, file_response, file_links, idx, attempt,
                    sent, got_2xx, calls, exc, exit_code, stdout >>

\* cli.py `download` after the call: the summary and a normal end, or one of
\* the two handlers, which print the error and raise typer.Exit(1)
CliFinish ==
    /\ pc \in {"returned", "propagated"}
    /\ exit_code' = ExitCode(report, exc)
    /\ stdout' = IF pc = "returned"
                 THEN << "Download completed!", "Successfully downloaded", "Failed",
                         "Skipped", "Total size", "Duration" >>
                 ELSE IF exc.type \in DownloadErrorTypes
                 THEN << "Error" >>
                 ELSE << "Unexpected error" >>
    /\ pc' = "exit"
    /\ UNCHANGED << page, links, config, dir, report, response, file_response, file_links, idx,
                    attempt, sent, got_2xx, calls, exc, clock >>

Next ==
    \/ Start
    \/ PageGet
    \/ PageParse
    \/ LoopStep
    \/ FileGet
    \/ FileSave
    \/ FileExcept
    \/ OuterExcept
    \/ Finally
    \/ CliFinish

Spec == Init /\ [][Next]_vars

(***************************************************************************)
(* A second set of inputs, for the link filter: pages whose hrefs differ   *)
(* in scheme, query string, fragment and letter case, and two settings of  *)
(* --allowed-extensions.  The output directory is empty and max_retries    *)
(* is 1.                                                                   *)
(***************************************************************************)
MaxWideLinks == 2

WideHrefs ==
    { <<"a",".","p","d","f">>,                                      \* a.pdf
      <<"A",".","P","D","F","?","v","=","1">>,                      \* A.PDF?v=1
      <<"a",".","p","d","f","#","t","o","p">>,                      \* a.pdf#top
      <<"m","a","i","l","t","o",":","a",".","p","d","f">>,          \* mailto:a.pdf
      <<"h","t","t","p","s",":","/","/","g","/","q","/","b",".","d","o","c","x">>,
                                                                    \* https://g/q/b.docx
      <<"j","a","v","a","s","c","r","i","p","t",":","x",".","p","d","f">>,
                                                                    \* javascript:x.pdf
      <<"j","a","v","a","s","c","r","i","p","t",":","v","o","i","d","(","0",")">>,
                                                                    \* javascript:void(0)
      << >>,                                                        \* the empty href
      <<"#","s",".","p","d","f">>,                                  \* #s.pdf
      <<"c",".","t","x","t">>,                                      \* c.txt
      <<"d","?","f","=","a",".","p","d","f">> }                     \* d?f=a.pdf

WidePages == UNION { [1..n -> WideHrefs] : n \in 0..MaxWideLinks }

\* cli.py line 68: the default, `-e .PDF,.txt` and `-e .pdf,` (whose last
\* element is the empty string)
WideExtensions ==
    { DefaultExtensions,
      << <<".","P","D","F">>, <<".","t","x","t">> >>,
      << <<".","p","d","f">>, << >> >> }

\* the file name every href of the model would lead to
WideFileNames == { FileNameOf(_normalize_url(PageUrl, h)) : h \in WideHrefs }

InitWide ==
    /\ page \in WidePages
    /\ config \in [max_retries : {1}, allowed_extensions : WideExtensions]
    /\ dir = [f \in WideFileNames |-> Absent]
    /\ links = << >>
    /\ pc = "cli"
    /\ report = DownloadReport(Unset)
    /\ response = NoResponse
    /\ file_response = NoResponse
    /\ file_links = << >>
    /\ idx = 0
    /\ attempt = 0
    /\ sent = 0
    /\ got_2xx = FALSE
    /\ calls = << >>
    /\ exc = NoExc
    /\ clock = 0
    /\ exit_code = Unset
    /\ stdout = << >>

SpecWide == InitWide /\ [][Next]_vars

(***************************************************************************)
(* The command run a second time on the same page, with the same options   *)
(* and the same output directory.                                          *)
(***************************************************************************)
\* the clock is 0 when the first invocation starts and 2 when it has ended
InSecondRun == clock > 2 \/ (clock = 2 /\ pc = "cli")

\* the output directory as the next invocation finds it: the files this
\* run opened are now files of an earlier run ("first")
LeftBehind(d) ==
    [f \in DOMAIN d |-> IF d[f].by = "run" THEN [d[f] EXCEPT !.by = "first"] ELSE d[f]]

\* the command has ended and is invoked again: a new process, a new
\* DocumentDownloader and a new report; only the directory carries over
Rerun ==
    /\ pc = "exit"
    /\ ~InSecondRun
    /\ dir' = LeftBehind(dir)
    /\ pc' = "cli"
    /\ report' = DownloadReport(Unset)
    /\ response' = NoResponse
    /\ file_response' = NoResponse
    /\ file_links' = << >>
    /\ idx' = 0
    /\ attempt' = 0
    /\ sent' = 0
    /\ got_2xx' = FALSE
    /\ calls' = << >>
    /\ exc' = NoExc
    /\ exit_code' = Unset
    /\ stdout' = << >>
    /\ links' = << >>
    /\ UNCHANGED << page, config, clock >>

NextRerun ==
    \/ Next
    \/ Rerun

\* the two invocations are given the default --max-retries of cli.py (3 there,
\* 1 here: one request per _make_request call)
InitRerun == Init /\ config.max_retries = 1

SpecRerun == InitRerun /\ [][NextRerun]_vars

(***************************************************************************)
(* Vocabulary of the properties.                                           *)
(***************************************************************************)
\* number of positions of seq that hold x
Count(seq, x) == Cardinality({i \in 1..Len(seq) : seq[i] = x})

\* download_from_url is over: it has returned or its exception has left it
Over == pc \in {"returned", "propagated", "exit"}

\* a _make_request call is in progress / has just returned
Requesting == pc \in {"page_req", "file_req"}
JustReturned == pc \in {"page_ret", "file_ret"}
\* the value a _make_request call has just returned
Returned == IF pc = "page_ret" THEN response ELSE file_response

\* candidate links whose iteration has ended
Processed == IF idx = 0 THEN 0 ELSE idx - 1

\* the file names that were in the output directory before the run
PreNames == {f \in FileNames : dir[f].by = "pre"}

\* the console summary of the success path
SummaryPrinted == \E i \in 1..Len(stdout) : stdout[i] = "Download completed!"

(***************************************************************************)
(* C1.  The three counters of the report add up to the number of candidate *)
(* links processed so far, and to the length of the candidate list when    *)
(* the report is returned; the end of the iteration for a link raises      *)
(* exactly one of the three counters, by exactly 1.                        *)
(***************************************************************************)
CounterSum(r) == r.success_count + r.failed_count + r.skipped_count

Thm_C1 ==
    /\ [](CounterSum(report) = Processed)
    /\ [](pc = "returned" => CounterSum(report) = Len(file_links))
    /\ [][ idx' # idx /\ idx >= 1 =>
             /\ idx' = idx + 1
             /\ \/ /\ report'.success_count = report.success_count + 1
                   /\ report'.failed_count = report.failed_count
                   /\ report'.skipped_count = report.skipped_count
                \/ /\ report'.success_count = report.success_count
                   /\ report'.failed_count = report.failed_count + 1
                   /\ report'.skipped_count = report.skipped_count
                \/ /\ report'.success_count = report.success_count
                   /\ report'.failed_count = report.failed_count
                   /\ report'.skipped_count = report.skipped_count + 1 ]_vars

\* a returned report in which all three counters have been raised
Wit_C1 ==
    /\ pc = "returned"
    /\ report.success_count >= 1
    /\ report.failed_count >= 1
    /\ report.skipped_count >= 1

(***************************************************************************)
(* C2.  For max_retries >= 1 a _make_request call whose every attempt ends *)
(* in a connection error, a timeout or a status outside 2xx never returns  *)
(* (it issues max_retries GETs and raises NetworkError): so a call that    *)
(* returns has had its latest GET answered with a 2xx status.              *)
(***************************************************************************)
CE_C2 == JustReturned /\ config.max_retries >= 1 => got_2xx

(***************************************************************************)
(* C3.  When a GET of a _make_request call is answered with a 2xx status,  *)
(* the call returns at once with that response: it is the k-th GET of the  *)
(* call, k GETs have been issued, k <= max_retries, no further GET of the  *)
(* call follows and no exception is raised.                                *)
(***************************************************************************)
Thm_C3 ==
    got_2xx =>
        /\ JustReturned
        /\ Returned.status >= 200 /\ Returned.status <= 299
        /\ Returned.url = CurrentUrl
        /\ Returned.n = sent
        /\ sent >= 1 /\ sent <= config.max_retries
        /\ exc = NoExc

\* the first attempt failed and the second was answered with 200
Wit_C3 == pc = "file_ret" /\ got_2xx /\ sent = 2

(***************************************************************************)
(* C4.  When the fetch of the page fails with its retries exhausted,       *)
(* download_from_url ends by raising DownloadError and never returns a     *)
(* report; the candidate list stays empty, _make_request has been called   *)
(* for the page URL only and no file of the output directory is written.   *)
(***************************************************************************)
\* the page fetch has failed: the loop was never reached although the
\* directory was made and at least one attempt was allowed
PageFetchFailed ==
    /\ idx = 0
    /\ config.max_retries >= 1
    /\ Len(calls) >= 1
    /\ pc \in {"outer_exc", "finally", "returned", "propagated", "exit"}

Thm_C4 ==
    PageFetchFailed =>
        /\ pc # "returned"
        /\ IF pc = "outer_exc"
           THEN exc.type = "NetworkError"
           ELSE exc.type = "DownloadError" /\ exc.msg.e = "NetworkError"
        /\ file_links = << >>
        /\ calls = << PageUrl >>
        /\ \A f \in FileNames : dir[f].by # "run"
        /\ report.success_count = 0 /\ report.failed_count = 0 /\ report.skipped_count = 0
        /\ pc = "exit" => exit_code = 1 /\ ~SummaryPrinted

\* the DownloadError of a page fetch that failed twice reaches the caller
Wit_C4 ==
    /\ pc = "propagated"
    /\ PageFetchFailed
    /\ config.max_retries = 2
    /\ exc.msg.e = "NetworkError"

(***************************************************************************)
(* C5.  An exception raised while a candidate link is fetched or saved     *)
(* does not end the batch: the handler raises failed_count by exactly 1,   *)
(* maps the link's URL to a non-empty message in failed_files, leaves the  *)
(* candidate list alone and goes on to the next link (or to the end of the *)
(* loop); once the loop has been reached download_from_url does not raise, *)
(* and it returns only after the last link.                                *)
(***************************************************************************)
Thm_C5 ==
    /\ [][ pc = "file_exc" =>
             /\ report'.failed_count = report.failed_count + 1
             /\ file_links[idx] \in DOMAIN report'.failed_files
             /\ report'.failed_files[file_links[idx]].text # ""
             /\ report'.success_count = report.success_count
             /\ report'.skipped_count = report.skipped_count
             /\ file_links' = file_links
             /\ idx' = idx + 1
             /\ pc' = (IF idx < Len(file_links) THEN "loop" ELSE "finally") ]_vars
    /\ [](idx >= 1 => pc \notin {"outer_exc", "propagated"})
    /\ [](idx >= 1 /\ pc \in {"finally", "returned", "exit"} =>
             /\ idx = Len(file_links) + 1
             /\ exc = NoExc)

\* the first link failed, a later one was downloaded, the report is returned
Wit_C5 ==
    /\ pc = "returned"
    /\ Len(file_links) >= 2
    /\ file_links[1] \in DOMAIN report.failed_files
    /\ report.success_count >= 1

(***************************************************************************)
(* C6.  end_time is stamped exactly once per invocation, by the finally    *)
(* clause as the invocation ends, on every exit path: it is set whenever   *)
(* download_from_url is over, is unset before that (so never before the    *)
(* last candidate link is done), is written only by the step that leaves   *)
(* the finally clause, and once set it never changes.                      *)
(***************************************************************************)
Thm_C6 ==
    /\ [](Over => report.end_time # Unset)
    /\ [](report.end_time # Unset =>
             /\ Over
             /\ idx = 0 \/ idx = Len(file_links) + 1)
    /\ [][ report'.end_time # report.end_time =>
             /\ pc = "finally"
             /\ pc' \in {"returned", "propagated"}
             /\ report.end_time = Unset
             /\ report'.end_time = clock ]_vars

\* the exit path of a directory that cannot be created
Wit_C6 ==
    /\ pc = "propagated"
    /\ calls = << >>
    /\ exc.msg.e = "OSError"
    /\ report.end_time # Unset

(***************************************************************************)
(* C7.  A candidate link whose file name exists in the output directory    *)
(* when it is reached is recorded as skipped (name appended to             *)
(* skipped_files, skipped_count raised by 1, nothing else of the report    *)
(* touched) without a _make_request call or a GET, and no step ever        *)
(* changes a file that is present in the directory: in particular a file   *)
(* that was there before the run is never opened for writing.              *)
(***************************************************************************)
Thm_C7 ==
    /\ [][ pc = "loop" /\ dir[FileNameOf(file_links[idx])].present =>
             /\ report'.skipped_files =
                    Append(report.skipped_files, FileNameOf(file_links[idx]))
             /\ report'.skipped_count = report.skipped_count + 1
             /\ report'.success_count = report.success_count
             /\ report'.failed_count = report.failed_count
             /\ report'.successful_files = report.successful_files
             /\ report'.failed_files = report.failed_files
             /\ calls' = calls
             /\ sent' = 0
             /\ pc' \notin {"file_req", "file_ret"}
             /\ idx' = idx + 1
             /\ dir' = dir ]_vars
    /\ [][ \A f \in FileNames : dir[f].present => dir'[f] = dir[f] ]_vars

\* a link was skipped on account of a file that was there before the run
Wit_C7 ==
    /\ pc = "returned"
    /\ Len(report.skipped_files) >= 1
    /\ report.skipped_files[1] \in PreNames
    /\ \A i \in 1..Len(calls) :
          calls[i] = PageUrl \/ FileNameOf(calls[i]) # report.skipped_files[1]

(***************************************************************************)
(* C8, as claimed.  When the report is returned (max_retries >= 1), every  *)
(* URL that occurs more than once in the candidate list and whose file was *)
(* not in the output directory before the run has been fetched once for    *)
(* each of its occurrences.                                                *)
(***************************************************************************)
CE_C8 ==
    pc = "returned" /\ config.max_retries >= 1 =>
        \A i \in 1..Len(file_links) :
            LET u == file_links[i]
            IN  Count(file_links, u) >= 2 /\ FileNameOf(u) \notin PreNames =>
                    Count(calls, u) = Count(file_links, u)

(***************************************************************************)
(* C8, amended.  The candidate list is not deduplicated: at the head of    *)
(* the loop and when the report is returned, every URL occurs in it as     *)
(* often as qualifying hrefs of the page resolve to it, and every          *)
(* occurrence is processed.  An occurrence is fetched only if no file of   *)
(* its name exists when it is reached: when the report is returned, a URL  *)
(* whose file was not there before the run has been fetched for every      *)
(* occurrence or its file now exists, and it has been fetched twice only   *)
(* if its first download failed (it is a key of failed_files).             *)
(***************************************************************************)
\* the URL each href found on the page resolves to, << >> for an href that
\* does not qualify
\* the absolute URL of every href a page can hold
NormalizedHrefs == [h \in Hrefs \cup WideHrefs |-> _normalize_url(PageUrl, h)]

\* whether each href qualifies, under each list of extensions
QualifyingHrefs ==
    [h \in Hrefs \cup WideHrefs, e \in {DefaultExtensions} \cup WideExtensions |->
        _is_downloadable_link(h, e)]

RECURSIVE Resolved(_, _)
Resolved(hrefs, extensions) ==
    IF Len(hrefs) = 0 THEN << >>
    ELSE << IF QualifyingHrefs[Head(hrefs), extensions]
            THEN NormalizedHrefs[Head(hrefs)] ELSE << >> >>
         \o Resolved(Tail(hrefs), extensions)

Occurrences == Resolved(links, config.allowed_extensions)

\* every qualifying URL of occ is in the candidate list as often as in occ
KeptInList(occ) ==
    \A i \in 1..Len(occ) :
        occ[i] # << >> => Count(file_links, occ[i]) = Count(occ, occ[i])

Thm_C8 ==
    /\ pc \in {"loop", "returned"} => KeptInList(Occurrences)
    /\ pc = "returned" =>
          /\ Processed = Len(file_links)
          /\ \A i \in 1..Len(file_links) :
                LET u == file_links[i]
                IN  FileNameOf(u) \notin PreNames =>
                       /\ Count(calls, u) <= Count(file_links, u)
                       /\ Count(calls, u) = Count(file_links, u)
                             \/ dir[FileNameOf(u)].present
                       /\ Count(calls, u) >= 2 => u \in DOMAIN report.failed_files

\* a URL that occurs twice was fetched for both occurrences
Wit_C8 ==
    /\ pc = "returned"
    /\ \E i \in 1..Len(file_links) :
          /\ Count(file_links, file_links[i]) = 2
          /\ FileNameOf(file_links[i]) \notin PreNames
          /\ Count(calls, file_links[i]) = 2

(***************************************************************************)
(* C9.  When the report is returned and nothing has failed, success_count  *)
(* is the number of distinct candidate file names that were not in the     *)
(* output directory before the run, successful_files lists exactly those   *)
(* names, once each, and skipped_count is the number of remaining          *)
(* occurrences.  For the candidates a.pdf, b.docx, b.docx with b.docx      *)
(* there before the run: success_count = 1, successful_files = [a.pdf],    *)
(* skipped_count = 2, failed_count = 0.                                    *)
(***************************************************************************)
CandidateNames == {FileNameOf(file_links[i]) : i \in 1..Len(file_links)}

a_pdf == <<"a",".","p","d","f">>
b_docx == <<"b",".","d","o","c","x">>

\* the example of the claim: a.pdf, b.docx, b.docx with b.docx already there
ExampleRun ==
    /\ Len(file_links) = 3
    /\ FileNameOf(file_links[1]) = a_pdf
    /\ FileNameOf(file_links[2]) = b_docx
    /\ file_links[3] = file_links[2]
    /\ PreNames = {b_docx}

Thm_C9 ==
    pc = "returned" /\ report.failed_count = 0 =>
        /\ report.success_count = Cardinality(CandidateNames \ PreNames)
        /\ Len(report.successful_files) = report.success_count
        /\ {report.successful_files[i] : i \in 1..Len(report.successful_files)}
              = CandidateNames \ PreNames
        /\ report.skipped_count = Len(file_links) - report.success_count
        /\ ExampleRun =>
              /\ report.success_count = 1
              /\ report.successful_files = << a_pdf >>
              /\ report.skipped_count = 2
              /\ report.skipped_files = << b_docx, b_docx >>

\* the example of the claim, run without a failure
Wit_C9 == pc = "returned" /\ report.failed_count = 0 /\ ExampleRun

(***************************************************************************)
(* C10.  The command ends with exit code 0 and the summary exactly when    *)
(* download_from_url got through its loop and returned the report, also    *)
(* when failed_count > 0; when the run was aborted before the loop (page   *)
(* fetch failed, directory not created, or another error) the command      *)
(* ends with exit code 1, prints the error and prints no summary.          *)
(***************************************************************************)
Thm_C10 ==
    pc = "exit" =>
        /\ exit_code \in {0, 1}
        /\ idx >= 1 =>
              /\ exit_code = 0
              /\ SummaryPrinted
        /\ idx = 0 =>
              /\ exit_code = 1
              /\ exc.type = "DownloadError"
              /\ exc.msg.e \in {"NetworkError", "OSError", "AttributeError"}
              /\ stdout = << "Error" >>
              /\ ~SummaryPrinted

\* the command ends with 0 although a download failed
Wit_C10 == pc = "exit" /\ exit_code = 0 /\ report.failed_count > 0

(***************************************************************************)
(* C11, as claimed.  When the output directory cannot be created (the run  *)
(* is aborted before _make_request is called at all), what leaves          *)
(* download_from_url is a FileSystemError, and no request has been sent.   *)
(***************************************************************************)
\* download_from_url was left by an exception before it called _make_request
MkdirFailed == pc \in {"propagated", "exit"} /\ calls = << >> /\ exc # NoExc

CE_C11 ==
    MkdirFailed /\ config.max_retries >= 1 => exc.type = "FileSystemError" /\ sent = 0

(***************************************************************************)
(* Vocabulary of the claims about the link filter.                         *)
(***************************************************************************)
\* the path of the href (what is left without scheme, host, query string
\* and fragment) ends with an allowed extension, letter case ignored
EndsWithAllowed(href) ==
    \E k \in 1..Len(config.allowed_extensions) :
        EndsWith(Lower(urlparse(href, << >>).path), Lower(config.allowed_extensions[k]))

\* the three kinds of href the filter rejects before it looks at the path
EmptyHref(href) == href = << >>
FragmentHref(href) == Len(href) > 0 /\ href[1] = "#"
ScriptHref(href) ==
    Len(href) >= 11 /\ SubSeq(href, 1, 11) = <<"j","a","v","a","s","c","r","i","p","t",":">>
Rejected(href) == EmptyHref(href) \/ FragmentHref(href) \/ ScriptHref(href)

\* the URL is absolute: it names its scheme
IsAbsolute(url) == Len(urlparse(url, << >>).scheme) > 0

\* the URL is in the candidate list
IsCandidate(url) == \E j \in 1..Len(file_links) : file_links[j] = url

\* the candidate list has been built
ListBuilt == pc \in {"loop", "returned"}

(***************************************************************************)
(* C12, as claimed.  Once the candidate list is built, every href of the   *)
(* page whose path ends with an allowed extension (letter case ignored) is *)
(* in it, resolved against the page URL to an absolute URL, whatever its   *)
(* scheme, query string or fragment.  Stated for the default extensions.   *)
(***************************************************************************)
CE_C12 ==
    ListBuilt /\ config.allowed_extensions = DefaultExtensions =>
        \A i \in 1..Len(links) :
            EndsWithAllowed(links[i]) =>
                /\ IsCandidate(urljoin(PageUrl, links[i]))
                /\ IsAbsolute(urljoin(PageUrl, links[i]))

(***************************************************************************)
(* C12, amended.  Once the candidate list is built, every href of the page *)
(* that is not empty, does not begin with '#' or with 'javascript:', and   *)
(* whose path ends with an allowed extension (letter case ignored) is in   *)
(* it, resolved against the page URL to an absolute URL.                   *)
(***************************************************************************)
Thm_C12 ==
    ListBuilt =>
        \A i \in 1..Len(links) :
            EndsWithAllowed(links[i]) /\ ~Rejected(links[i]) =>
                /\ IsCandidate(urljoin(PageUrl, links[i]))
                /\ IsAbsolute(urljoin(PageUrl, links[i]))

\* a page with A.PDF?v=1 and mailto:a.pdf: both are candidates
Wit_C12 ==
    /\ pc = "loop"
    /\ links = << <<"A",".","P","D","F","?","v","=","1">>,
                 <<"m","a","i","l","t","o",":","a",".","p","d","f">> >>
    /\ file_links = << <<"h","t","t","p",":","/","/","h","/","p","/",
                         "A",".","P","D","F","?","v","=","1">>,
                       <<"m","a","i","l","t","o",":","a",".","p","d","f">> >>

(***************************************************************************)
(* C13.  An href that is empty, begins with '#' or begins with             *)
(* 'javascript:' never makes it into the candidate list, whatever its      *)
(* path ends with and whatever the allowed extensions are: the list has    *)
(* one entry for each other href with a qualifying path and none besides,  *)
(* the URL such an href would resolve to is a candidate only if another    *)
(* href resolves to it, and every request after the one for the page is    *)
(* for a candidate.                                                        *)
(***************************************************************************)
\* the hrefs of the page the filter lets through
Passing == { i \in 1..Len(links) : ~Rejected(links[i]) /\ EndsWithAllowed(links[i]) }

Thm_C13 ==
    /\ ListBuilt =>
          /\ Len(file_links) = Cardinality(Passing)
          /\ \A i \in 1..Len(links) :
                Rejected(links[i]) =>
                    \/ ~IsCandidate(urljoin(PageUrl, links[i]))
                    \/ \E j \in Passing :
                          urljoin(PageUrl, links[j]) = urljoin(PageUrl, links[i])
    /\ Len(calls) >= 1 => calls[1] = PageUrl
    /\ \A k \in 2..Len(calls) : IsCandidate(calls[k])

\* a page with a rejected href whose path qualifies, next to one that was fetched
Wit_C13 ==
    /\ pc = "returned"
    /\ Len(calls) = 2
    /\ \E i \in 1..Len(links) : Rejected(links[i]) /\ EndsWithAllowed(links[i])

(***************************************************************************)
(* C14, as claimed.  The content-length header never makes a download      *)
(* fail: once _make_request has returned a response for a link, the link   *)
(* goes to the handler inside the loop only because the save raised        *)
(* (OSError from open() or from writing a chunk).                          *)
(***************************************************************************)
CE_C14 ==
    [][ pc = "file_ret" /\ file_response # NoResponse /\ pc' = "file_exc"
            => exc'.type = "OSError" ]_vars

(***************************************************************************)
(* C15.  In the second of two consecutive runs on the same page and        *)
(* output directory, a file the first run created (complete, empty or      *)
(* partially written by a save that failed) is never touched, no request   *)
(* is made for a link of its name, and when the report is returned every   *)
(* link of its name is in skipped_files.                                   *)
(***************************************************************************)
\* the file names the first run left a file for
FirstRunNames == { f \in DOMAIN dir : dir[f].by = "first" }

\* the links of the candidate list whose file has the given name
LinksNamed(f) == { i \in 1..Len(file_links) : FileNameOf(file_links[i]) = f }

Thm_C15 ==
    /\ [](InSecondRun =>
            /\ \A k \in 2..Len(calls) : FileNameOf(calls[k]) \notin FirstRunNames
            /\ pc = "returned" =>
                  \A f \in FirstRunNames :
                      /\ Count(report.skipped_files, f) = Cardinality(LinksNamed(f))
                      /\ Count(report.successful_files, f) = 0
                      /\ \A i \in LinksNamed(f) : file_links[i] \notin DOMAIN report.failed_files)
    /\ [][InSecondRun => \A f \in FirstRunNames : dir'[f] = dir[f]]_vars

\* the second run has returned; a.pdf is the partial file (5000 bytes of
\* 8292) the first run's failed save left, and the second run skipped its link
Wit_C15 ==
    /\ InSecondRun
    /\ pc = "returned"
    /\ dir[a_pdf] = [present |-> TRUE, bytes |-> 5000, by |-> "first"]
    /\ report.skipped_files = << a_pdf >>
    /\ calls = << PageUrl >>

(***************************************************************************)
(* C16.  At every point of a run total_size is the sum, over the entries   *)
(* of successful_files, of the bytes_written _save_file returned for them  *)
(* (the size of the file the run wrote under that name); files of skipped  *)
(* and of failed links, partially written ones included, add nothing; and  *)
(* total_size never decreases.                                             *)
(***************************************************************************)
\* the sum of the sizes of the files named in the sequence
RECURSIVE SumBytes(_)
SumBytes(names) ==
    IF Len(names) = 0 THEN 0 ELSE dir[Head(names)].bytes + SumBytes(Tail(names))

Thm_C16 ==
    /\ [](/\ report.total_size = SumBytes(report.successful_files)
          /\ \A i \in 1..Len(report.successful_files) :
                /\ dir[report.successful_files[i]].by = "run"
                /\ Count(report.successful_files, report.successful_files[i]) = 1)
    /\ [][report'.total_size >= report.total_size]_vars

\* b.docx was saved (100 bytes) and the save of a.pdf failed after its first
\* chunk: the 8192 bytes on disk are not in total_size
Wit_C16 ==
    /\ pc = "returned"
    /\ report.successful_files = << b_docx >>
    /\ report.total_size = 100
    /\ dir[a_pdf] = Written(ChunkSize)
    /\ report.failed_count = 1

(***************************************************************************)
(* C17, as claimed.  At every point of a run each counter of the report is *)
(* the number of entries of its collection.                                *)
(***************************************************************************)
CE_C17 ==
    /\ report.success_count = Len(report.successful_files)
    /\ report.skipped_count = Len(report.skipped_files)
    /\ report.failed_count = Cardinality(DOMAIN report.failed_files)

(***************************************************************************)
(* C17, amended.  success_count and skipped_count are the lengths of       *)
(* their lists.  failed_count is the number of links processed that were   *)
(* neither saved nor skipped; it is at least the number of entries of      *)
(* failed_files, whose keys are the URLs of the links that failed, and     *)
(* exceeds it only when a URL that occurs more than once in the candidate  *)
(* list has failed (the later failure replaces the entry of the earlier).  *)
(***************************************************************************)
Thm_C17 ==
    /\ report.success_count = Len(report.successful_files)
    /\ report.skipped_count = Len(report.skipped_files)
    /\ report.failed_count
          = Processed - Len(report.successful_files) - Len(report.skipped_files)
    /\ Cardinality(DOMAIN report.failed_files) <= report.failed_count
    /\ \A u \in DOMAIN report.failed_files : \E i \in 1..Processed : file_links[i] = u
    /\ report.failed_count > 0 => DOMAIN report.failed_files # {}
    /\ report.failed_count > Cardinality(DOMAIN report.failed_files) =>
          \E u \in DOMAIN report.failed_files : Count(file_links, u) >= 2

\* the same URL failed twice: two failures counted, one entry
Wit_C17 ==
    /\ pc = "returned"
    /\ report.failed_count = 2
    /\ Cardinality(DOMAIN report.failed_files) = 1

(***************************************************************************)
(* C18, as claimed.  Whatever integer max_retries is, a call of            *)
(* _make_request that returns returns a response, and a run that ends      *)
(* because the page could not be obtained ends with the Network error.     *)
(***************************************************************************)
CE_C18 ==
    /\ JustReturned => Returned # NoResponse
    /\ pc = "propagated" /\ calls # << >> => exc.msg.e = "NetworkError"

(***************************************************************************)
(* C19, as claimed.  Every file name in skipped_files names a file that    *)
(* was in the output directory before the run or is in successful_files    *)
(* (a link is skipped after the download that created its file, so the     *)
(* name is then already recorded).                                         *)
(***************************************************************************)
CE_C19 ==
    \A i \in 1..Len(report.skipped_files) :
        \/ report.skipped_files[i] \in PreNames
        \/ Count(report.successful_files, report.skipped_files[i]) >= 1

====
